---- MODULE Spec2Model ----
(***************************************************************************)
(* Model of assume-role (src/main.rs): one invocation of the binary, from  *)
(* the parsed command line to process exit.  The program is sequential;    *)
(* pc is the position of main/_main between its calls to the outside       *)
(* world (config file, standard input, the `aws` child process, the        *)
(* standard streams).                                                      *)
(*                                                                         *)
(* Option<T> is a sequence of length at most one: None = <<>>,             *)
(* Some(v) = <<v>>.  Text read from standard input is a sequence of        *)
(* one-character strings, so that trimming is computed; every other string *)
(* is a TLA+ string.                                                       *)
(***************************************************************************)
EXTENDS Integers, Sequences, FiniteSets, TLC

\* ------------------------------------------------------------------ bounds
\* longest line body typed at the MFA prompt (characters before the newline)
MaxLineLen == 3

\* ------------------------------------------------------------- Option<T>
None == <<>>
Some(v) == <<v>>
IsSome(o) == o # <<>>
Unwrap(o) == o[1]

\* ------------------------------------------------------------ input sets
\* positional PROFILE values given on the command line
ProfileNames == {"dev", "prod"}
\* section names an ini file may contain; only "profile <name>" is looked up
SectionNames == {"profile dev", "dev"}
\* values of the recognised keys; an ini value may be the empty string
RoleArnValues == {"", "arn:x"}
SourceProfileValues == {"base"}
MfaSerialValues == {"serial:1"}
ExternalIdValues == {"eid"}
\* characters of a line typed on standard input
BodyChars == {" ", "7"}
WhiteSpace == {" ", "\n"}
\* value of home_dir()
HomeDirs == {None, Some("/home/u")}
\* error texts of the operating system and of the ini parser
IoReadError == "stream did not contain valid UTF-8"
IoSpawnError == "No such file or directory (os error 2)"
IoWaitError == "Interrupted system call (os error 4)"
IniErrors == {"No such file or directory (os error 2)", "1:0 expecting \"[Some('='), Some(':')]\" but found EOF."}
\* exit statuses of the child
ExitStatuses == {0, 1}

\* struct App after App::from_args: structopt guarantees that profile
\* conflicts with --source-profile/--role-arn/--external-id, that one of
\* profile and --role-arn is given, and that --external-id needs --role-arn
Apps ==
    { [profile |-> Some(n), source_profile |-> None, role_arn |-> None, external_id |-> None] :
        n \in ProfileNames }
    \cup
    { [profile |-> None, source_profile |-> sp, role_arn |-> Some(r), external_id |-> e] :
        sp \in {None} \cup {Some(v) : v \in SourceProfileValues},
        r \in RoleArnValues,
        e \in {None} \cup {Some(v) : v \in ExternalIdValues} }

\* ini::Properties of one section: recognised key -> Option<value>; other
\* keys of a section are never read and are not represented
PropertiesSet ==
    [ source_profile : {None} \cup {Some(v) : v \in SourceProfileValues},
      role_arn       : {None} \cup {Some(v) : v \in RoleArnValues},
      mfa_serial     : {None} \cup {Some(v) : v \in MfaSerialValues} ]

\* outcome of Ini::load_from_file: Err(text) or the file's sections
ConfigFiles ==
    { [ok |-> FALSE, error |-> e, sections |-> <<>>] : e \in IniErrors }
    \cup
    { [ok |-> TRUE, error |-> "", sections |-> [s \in S |-> p]] :
        S \in SUBSET SectionNames, p \in PropertiesSet }

RECURSIVE SeqsUpTo(_, _)
SeqsUpTo(S, n) ==
    IF n = 0 THEN {<<>>}
    ELSE LET shorter == SeqsUpTo(S, n - 1)
         IN  shorter \cup { Append(s, c) : s \in shorter, c \in S }

\* what read_line appends to `input`: the bytes up to and including the
\* first newline, or up to end of input
StdinLines ==
    LET bodies == SeqsUpTo(BodyChars, MaxLineLen)
    IN  bodies \cup { Append(b, "\n") : b \in bodies }

\* ------------------------------------------------------- JSON documents
\* A JSON value: string, number, null, object (key -> value) or array.
JStr(s) == [t |-> "str", v |-> s, m |-> <<>>, e |-> <<>>]
JNum == [t |-> "num", v |-> "", m |-> <<>>, e |-> <<>>]
JNull == [t |-> "null", v |-> "", m |-> <<>>, e |-> <<>>]
JObj(members) == [t |-> "obj", v |-> "", m |-> members, e |-> <<>>]
JArr(elems) == [t |-> "arr", v |-> "", m |-> <<>>, e |-> elems]

CredKeys == {"AccessKeyId", "SecretAccessKey", "SessionToken"}
CredValue(k) ==
    CASE k = "AccessKeyId" -> "AKIA1"
      [] k = "SecretAccessKey" -> "S'K/+"
      [] k = "SessionToken" -> "ST=="
      [] OTHER -> "2026-01-01T00:00:00Z"

\* candidate values of the "Credentials" member
InnerDocs ==
    { JObj([k \in S |-> IF f[k] = "str" THEN JStr(CredValue(k)) ELSE JNum]) :
        S \in SUBSET CredKeys, f \in [CredKeys -> {"str", "num"}] }
    \cup
    { JObj([k \in CredKeys \cup {"Expiration"} |-> JStr(CredValue(k))]),
      JArr(<<JStr("AKIA1"), JStr("S'K/+"), JStr("ST==")>>),
      JArr(<<JStr("AKIA1"), JStr("S'K/+")>>),
      JArr(<<JStr("AKIA1"), JStr("S'K/+"), JStr("ST=="), JStr("x")>>),
      JArr(<<JStr("AKIA1"), JNum, JStr("ST==")>>),
      JStr("AKIA1"),
      JNull }

\* bytes on the child's standard output: not JSON at all, or a document
ToolOutputs ==
    { [wellformed |-> FALSE, doc |-> JNull] }
    \cup
    { [wellformed |-> TRUE, doc |-> d] :
        d \in { JObj([k \in {"Credentials"} |-> c]) : c \in InnerDocs }
              \cup { JObj([k \in {"Credentials", "AssumedRoleUser"} |->
                            IF k = "Credentials" THEN c ELSE JObj(<<>>)]) : c \in InnerDocs }
              \cup { JObj([k \in {"credentials"} |-> c]) : c \in InnerDocs }
              \cup { JArr(<<c>>) : c \in InnerDocs }
              \cup { JObj(<<>>), JArr(<<>>), JStr("ok"), JNull } }

\* ------------------------------------------------ AWS_CONFIG_PATH (12-19)
\* home_dir() with ".aws" and "config" pushed; defined when home is Some
AWS_CONFIG_PATH(home) == (Unwrap(home) \o "/.aws") \o "/config"

\* {:?} of a string or path: the text in double quotes
DebugStr(s) == ("\"" \o s) \o "\""

\* ------------------------------------------------------ str::trim (138)
RECURSIVE TrimStart(_)
TrimStart(s) ==
    IF s # <<>> /\ Head(s) \in WhiteSpace THEN TrimStart(Tail(s)) ELSE s

RECURSIVE TrimEnd(_)
TrimEnd(s) ==
    IF s # <<>> /\ s[Len(s)] \in WhiteSpace
    THEN TrimEnd(SubSeq(s, 1, Len(s) - 1))
    ELSE s

TrimNone(s) == s

Trim(s) == TrimEnd(TrimStart(s))

\* to_string of the characters read
RECURSIVE CharsToString(_)
CharsToString(s) == IF s = <<>> THEN "" ELSE Head(s) \o CharsToString(Tail(s))

\* ----------------------------------------------- constructors (82-100)
AssumeRoleArgsNew(role_arn, external_id, mfa) ==
    [tag |-> "AssumeRole", role_arn |-> role_arn, external_id |-> external_id,
     mfa |-> mfa]

GetSessionTokenArgsNewNoMfa(mfa) ==
    [tag |-> "GetSessionToken", role_arn |-> "", external_id |-> None, mfa |-> None]

\* GetSessionTokenArgs has the single field mfa; role_arn and external_id
\* are kept as unused placeholders so that both variants compare
GetSessionTokenArgsNew(mfa) ==
    [tag |-> "GetSessionToken", role_arn |-> "", external_id |-> None, mfa |-> mfa]

\* ------------------------------------------------- ArgsBuilder (155-173)
Push(a, arg) == Append(a, arg)

PushFlag(a, flag, value) == Append(Append(a, flag), value)

PushFlagOpt(a, flag, value) ==
    IF IsSome(value) THEN PushFlag(a, flag, Unwrap(value)) ELSE a

\* ------------------------------------------------- ExtendArgs (190-228)
MfaExtend(a, mfa) ==
    IF IsSome(mfa)
    THEN PushFlag(PushFlag(a, "--serial-number", Unwrap(mfa)[1]),
                  "--token-code", Unwrap(mfa)[2])
    ELSE a

AssumeRoleArgsExtendMfaFirst(sub, a) ==
    LET a1 == Push(a, "assume-role")
        a2 == PushFlag(a1, "--role-arn", sub.role_arn)
        a3 == PushFlag(a2, "--role-session-name", "blah")
        a4 == MfaExtend(a3, sub.mfa)
    IN  PushFlagOpt(a4, "--external_id", sub.external_id)

AssumeRoleArgsExtend(sub, a) ==
    LET a1 == Push(a, "assume-role")
        a2 == PushFlag(a1, "--role-arn", sub.role_arn)
        a3 == PushFlag(a2, "--role-session-name", "blah")
        a4 == PushFlagOpt(a3, "--external_id", sub.external_id)
    IN  MfaExtend(a4, sub.mfa)

GetSessionTokenArgsExtend(sub, a) ==
    MfaExtend(Push(a, "get-session-token"), sub.mfa)

AwsSubcommandExtend(sub, a) ==
    IF sub.tag = "AssumeRole"
    THEN AssumeRoleArgsExtend(sub, a)
    ELSE GetSessionTokenArgsExtend(sub, a)

AwsArgsExtend(aws, a) ==
    LET a1 == PushFlagOpt(a, "--profile", aws.source_profile)
        a2 == Push(a1, "sts")
    IN  AwsSubcommandExtend(aws.subcommand, a2)

\* IntoIterator for AwsArgs (179-188)
IntoIter(aws) == AwsArgsExtend(aws, <<>>)

\* ------------------------------ serde: CredentialsResponse (230-242, 60)
\* Result<T, ()>: Ok(v) = Some(v), Err = None.
\* A derived Deserialize reads a struct from a JSON object by field name
\* (unknown members are skipped, a missing or ill-typed member is an
\* error) and, as serde_json permits for any struct, from a JSON array by
\* field position (too few or too many elements is an error).
DeString(j) == IF j.t = "str" THEN Some(j.v) ELSE None

DeSessionCredentials(j) ==
    CASE j.t = "obj" ->
           IF /\ CredKeys \subseteq DOMAIN j.m
              /\ \A k \in CredKeys : IsSome(DeString(j.m[k]))
           THEN Some([access_key_id     |-> j.m["AccessKeyId"].v,
                      secret_access_key |-> j.m["SecretAccessKey"].v,
                      session_token     |-> j.m["SessionToken"].v])
           ELSE None
      [] j.t = "arr" ->
           IF /\ Len(j.e) = 3
              /\ \A i \in 1..3 : IsSome(DeString(j.e[i]))
           THEN Some([access_key_id     |-> j.e[1].v,
                      secret_access_key |-> j.e[2].v,
                      session_token     |-> j.e[3].v])
           ELSE None
      [] OTHER -> None

DeCredentialsResponse(j) ==
    CASE j.t = "obj" ->
           IF "Credentials" \in DOMAIN j.m /\ IsSome(DeSessionCredentials(j.m["Credentials"]))
           THEN Some([credentials |-> Unwrap(DeSessionCredentials(j.m["Credentials"]))])
           ELSE None
      [] j.t = "arr" ->
           IF Len(j.e) = 1 /\ IsSome(DeSessionCredentials(j.e[1]))
           THEN Some([credentials |-> Unwrap(DeSessionCredentials(j.e[1]))])
           ELSE None
      [] OTHER -> None

\* serde_json::from_slice::<CredentialsResponse>
FromSlice(bytes) ==
    IF bytes.wellformed THEN DeCredentialsResponse(bytes.doc) ELSE None

\* ------------------------------- Display for SessionCredentials (244-254)
SessionCredentialsFmtSwapped(c) ==
    (("export AWS_ACCESS_KEY_ID='" \o c.access_key_id) \o "'\n")
    \o ((("export AWS_SECRET_ACCESS_KEY='" \o c.session_token) \o "'\n")
    \o (("export AWS_SESSION_TOKEN='" \o c.secret_access_key) \o "'"))

\* the format string spans three source lines: the line breaks are part of it
SessionCredentialsFmt(c) ==
    (("export AWS_ACCESS_KEY_ID='" \o c.access_key_id) \o "'\n")
    \o ((("export AWS_SECRET_ACCESS_KEY='" \o c.secret_access_key) \o "'\n")
    \o (("export AWS_SESSION_TOKEN='" \o c.session_token) \o "'"))

\* ------------------------------------------- AppError (256-303)
AppErrorCmd(argv) == [kind |-> "CmdError", text |-> "", cmd |-> argv]
AppErrorGeneric(msg) == [kind |-> "Generic", text |-> msg, cmd |-> <<>>]
AppErrorIo(msg) == [kind |-> "Io", text |-> msg, cmd |-> <<>>]
AppErrorProfile(msg) == [kind |-> "ProfileError", text |-> msg, cmd |-> <<>>]
AppErrorUnexpectedOutput(msg) == [kind |-> "UnexpectedOutput", text |-> msg, cmd |-> <<>>]

\* {:?} of a Command: program and arguments, each quoted, space separated
RECURSIVE DebugCommand(_)
DebugCommand(argv) ==
    IF Len(argv) = 1 THEN DebugStr(argv[1])
    ELSE (DebugStr(Head(argv)) \o " ") \o DebugCommand(Tail(argv))

\* Display for AppError; home is the value AWS_CONFIG_PATH derives from
AppErrorFmt(e, home) ==
    CASE e.kind = "CmdError" -> "AWS CLI call failed: " \o DebugCommand(e.cmd)
      [] e.kind = "Generic" -> e.text
      [] e.kind = "Io" -> e.text
      [] e.kind = "ProfileError" ->
           ("unable to read " \o DebugStr(AWS_CONFIG_PATH(home))) \o (": " \o e.text)
      [] e.kind = "UnexpectedOutput" -> "unexpected output from AWS CLI call: " \o e.text

\* text of the serde_json error
JsonErrorText(bytes) ==
    IF bytes.wellformed
    THEN "invalid type or missing field at line 1 column 1"
    ELSE "expected value at line 1 column 1"

\* ------------------------------------- TryFrom<App> for AwsArgs (105-123)
DeleteSectionBareName(cfg, name) ==
    IF name \in DOMAIN cfg.sections
    THEN Some(cfg.sections[name])
    ELSE None

\* Ini::delete(Some(format!("profile {}", name)))
DeleteSection(cfg, name) ==
    IF ("profile " \o name) \in DOMAIN cfg.sections
    THEN Some(cfg.sections["profile " \o name])
    ELSE None

ProfileNotFoundText(name, home) ==
    (("profile " \o DebugStr(name)) \o " not found in ") \o DebugStr(AWS_CONFIG_PATH(home))

TryFromAppExplicitNoExternalId(a) ==
    [source_profile |-> a.source_profile,
     subcommand |-> AssumeRoleArgsNew(Unwrap(a.role_arn), None, None)]

\* the else branch: no profile name
TryFromAppExplicit(a) ==
    [source_profile |-> a.source_profile,
     subcommand |-> AssumeRoleArgsNew(Unwrap(a.role_arn), a.external_id, None)]

\* --------------------------- TryFrom<Properties> for AwsArgs (129-152)
\* the final match on role_arn
ResolveProperties(p, mfa) ==
    IF IsSome(p.role_arn)
    THEN [source_profile |-> p.source_profile,
          subcommand |-> AssumeRoleArgsNew(Unwrap(p.role_arn), None, mfa)]
    ELSE [source_profile |-> p.source_profile,
          subcommand |-> GetSessionTokenArgsNew(mfa)]

\* ExitStatus::success
StatusSuccessAlways(status) == TRUE

StatusSuccess(status) == status = 0

\* eprintln!("Error: {}", error) after text already on the current line
EprintlnErrorSwallowed(lines, partial, msg) == lines

EprintlnError(lines, partial, msg) == Append(lines, partial \o ("Error: " \o msg))

PanicLines ==
    <<"thread 'main' panicked at 'Unable to determine home directory'",
      "note: run with RUST_BACKTRACE=1 environment variable to display a backtrace">>


VARIABLES
    pc,            \* position in main/_main
    app,           \* struct App
    homeDir,       \* result of home_dir()
    config,        \* Option: what Ini::load_from_file returned
    properties,    \* Option: the section removed from the file
    stdinLine,     \* Option: the line read at the MFA prompt
    args,          \* Option<AwsArgs>
    cmd,           \* Option: argv of the Command, program name first
    spawned,       \* number of children spawned
    output,        \* Option: Output {status, stdout} of the child
    response,      \* Option<CredentialsResponse>
    err,           \* Option<AppError> returned by _main
    stdout,        \* text written to standard output
    stderrLines,   \* completed lines written to standard error
    stderrPartial, \* text written to standard error after the last newline
    exitCode,      \* Option: exit code of the process
    events         \* the externally visible steps taken so far, in order

vars == <<pc, app, homeDir, config, properties, stdinLine, args, cmd, spawned,
          output, response, err, stdout, stderrLines, stderrPartial, exitCode,
          events>>

Init ==
    /\ pc = "try_from_app"
    /\ app \in Apps
    /\ homeDir \in HomeDirs
    /\ config = None
    /\ properties = None
    /\ stdinLine = None
    /\ args = None
    /\ cmd = None
    /\ spawned = 0
    /\ output = None
    /\ response = None
    /\ err = None
    /\ stdout = ""
    /\ stderrLines = <<>>
    /\ stderrPartial = ""
    /\ exitCode = None
    /\ events = <<>>

\* ------------------------------------------------------------- actions
\* AwsArgs::try_from(app), line 50, up to the call at line 112
TryFromApp ==
    /\ pc = "try_from_app"
    /\ IF IsSome(app.profile)
       THEN IF homeDir = None
            THEN \* AWS_CONFIG_PATH is first dereferenced here: expect() panics
                 /\ stderrLines' = stderrLines \o PanicLines
                 /\ exitCode' = Some(101)
                 /\ pc' = "exited"
                 /\ events' = Append(events, "resolve")
                 /\ UNCHANGED <<config, properties, args, err>>
            ELSE \E cfg \in ConfigFiles :
                 /\ config' = Some(cfg)
                 /\ events' = Append(events, "resolve")
                 /\ UNCHANGED <<stderrLines, exitCode, args>>
                 /\ IF ~cfg.ok
                    THEN /\ err' = Some(AppErrorProfile(cfg.error))
                         /\ pc' = "main_err"
                         /\ UNCHANGED properties
                    ELSE IF DeleteSection(cfg, Unwrap(app.profile)) = None
                    THEN /\ err' = Some(AppErrorGeneric(
                                      ProfileNotFoundText(Unwrap(app.profile), homeDir)))
                         /\ pc' = "main_err"
                         /\ UNCHANGED properties
                    ELSE /\ properties' = DeleteSection(cfg, Unwrap(app.profile))
                         /\ pc' = "try_from_properties"
                         /\ UNCHANGED err
       ELSE /\ args' = Some(TryFromAppExplicit(app))
            /\ pc' = "build_cmd"
            /\ events' = Append(events, "resolve")
            /\ UNCHANGED <<config, properties, err, stderrLines, exitCode>>
    /\ UNCHANGED <<app, homeDir, stdinLine, cmd, spawned, output, response,
                   stdout, stderrPartial>>

\* AwsArgs::try_from(profile), lines 129-152
TryFromProperties ==
    /\ pc = "try_from_properties"
    /\ LET p == Unwrap(properties) IN
       IF IsSome(p.mfa_serial)
       THEN /\ stderrPartial' = stderrPartial \o "MFA token: "
            /\ events' = Append(events, "prompt")
            /\ \/ \* read_line fails
                  /\ err' = Some(AppErrorIo(IoReadError))
                  /\ pc' = "main_err"
                  /\ UNCHANGED <<stdinLine, args>>
               \/ \E line \in StdinLines :
                  /\ stdinLine' = Some(line)
                  /\ args' = Some(ResolveProperties(p,
                                Some(<<Unwrap(p.mfa_serial), CharsToString(Trim(line))>>)))
                  /\ pc' = "build_cmd"
                  /\ UNCHANGED err
       ELSE /\ args' = Some(ResolveProperties(p, None))
            /\ pc' = "build_cmd"
            /\ UNCHANGED <<stderrPartial, events, stdinLine, err>>
    /\ UNCHANGED <<app, homeDir, config, properties, cmd, spawned, output,
                   response, stdout, stderrLines, exitCode>>

\* Command::new("aws") and cmd.args(args), lines 51-52
BuildCmd ==
    /\ pc = "build_cmd"
    /\ cmd' = Some(<<"aws">> \o IntoIter(Unwrap(args)))
    /\ events' = Append(events, "build")
    /\ pc' = "spawn"
    /\ UNCHANGED <<app, homeDir, config, properties, stdinLine, args, spawned,
                   output, response, err, stdout, stderrLines, stderrPartial,
                   exitCode>>

\* cmd.spawn()?, line 54
Spawn ==
    /\ pc = "spawn"
    /\ \/ /\ spawned' = spawned + 1
          /\ events' = Append(events, "spawn")
          /\ pc' = "wait"
          /\ UNCHANGED err
       \/ /\ err' = Some(AppErrorIo(IoSpawnError))
          /\ pc' = "main_err"
          /\ UNCHANGED <<spawned, events>>
    /\ UNCHANGED <<app, homeDir, config, properties, stdinLine, args, cmd,
                   output, response, stdout, stderrLines, stderrPartial,
                   exitCode>>

WaitWithOutputRetry ==
    /\ pc = "wait"
    /\ \/ \E st \in ExitStatuses, bytes \in ToolOutputs :
          /\ output' = Some([status |-> st, stdout |-> bytes])
          /\ events' = Append(events, "wait")
          /\ pc' = "check_status"
          /\ UNCHANGED err
       \/ /\ pc' = "spawn"
          /\ UNCHANGED <<output, events, err>>
    /\ UNCHANGED <<app, homeDir, config, properties, stdinLine, args, cmd,
                   spawned, response, stdout, stderrLines, stderrPartial,
                   exitCode>>

\* child.wait_with_output()?, line 55
WaitWithOutput ==
    /\ pc = "wait"
    /\ \/ \E st \in ExitStatuses, bytes \in ToolOutputs :
          /\ output' = Some([status |-> st, stdout |-> bytes])
          /\ events' = Append(events, "wait")
          /\ pc' = "check_status"
          /\ UNCHANGED err
       \/ /\ err' = Some(AppErrorIo(IoWaitError))
          /\ pc' = "main_err"
          /\ UNCHANGED <<output, events>>
    /\ UNCHANGED <<app, homeDir, config, properties, stdinLine, args, cmd,
                   spawned, response, stdout, stderrLines, stderrPartial,
                   exitCode>>

\* if !output.status.success() { eprintln!(); return Err(..) }, lines 56-59
CheckStatus ==
    /\ pc = "check_status"
    /\ IF StatusSuccess(Unwrap(output).status)
       THEN /\ pc' = "from_slice"
            /\ UNCHANGED <<stderrLines, stderrPartial, err>>
       ELSE /\ stderrLines' = Append(stderrLines, stderrPartial)
            /\ stderrPartial' = ""
            /\ err' = Some(AppErrorCmd(Unwrap(cmd)))
            /\ pc' = "main_err"
    /\ UNCHANGED <<app, homeDir, config, properties, stdinLine, args, cmd,
                   spawned, output, response, stdout, exitCode, events>>

\* serde_json::from_slice::<CredentialsResponse>(&output.stdout)?, line 60
Parse ==
    /\ pc = "from_slice"
    /\ events' = Append(events, "parse")
    /\ LET r == FromSlice(Unwrap(output).stdout) IN
       IF IsSome(r)
       THEN /\ response' = r
            /\ pc' = "println"
            /\ UNCHANGED err
       ELSE /\ err' = Some(AppErrorUnexpectedOutput(JsonErrorText(Unwrap(output).stdout)))
            /\ pc' = "main_err"
            /\ UNCHANGED response
    /\ UNCHANGED <<app, homeDir, config, properties, stdinLine, args, cmd,
                   spawned, output, stdout, stderrLines, stderrPartial,
                   exitCode>>

\* println!("{}", response.credentials), line 61
Println ==
    /\ pc = "println"
    /\ stdout' = stdout \o (SessionCredentialsFmt(Unwrap(response).credentials) \o "\n")
    /\ events' = Append(events, "print")
    /\ pc' = "main_ok"
    /\ UNCHANGED <<app, homeDir, config, properties, stdinLine, args, cmd,
                   spawned, output, response, err, stderrLines, stderrPartial,
                   exitCode>>

\* _main returned Ok(()): main returns, lines 63 and 40-45
MainOk ==
    /\ pc = "main_ok"
    /\ exitCode' = Some(0)
    /\ pc' = "exited"
    /\ UNCHANGED <<app, homeDir, config, properties, stdinLine, args, cmd,
                   spawned, output, response, err, stdout, stderrLines,
                   stderrPartial, events>>

\* _main returned Err(error): eprintln! and process::exit(1), lines 41-44
MainErr ==
    /\ pc = "main_err"
    /\ stderrLines' = EprintlnError(stderrLines, stderrPartial,
                                    AppErrorFmt(Unwrap(err), homeDir))
    /\ stderrPartial' = ""
    /\ exitCode' = Some(1)
    /\ pc' = "exited"
    /\ UNCHANGED <<app, homeDir, config, properties, stdinLine, args, cmd,
                   spawned, output, response, err, stdout, events>>

Next ==
    \/ TryFromApp
    \/ TryFromProperties
    \/ BuildCmd
    \/ Spawn
    \/ WaitWithOutput
    \/ CheckStatus
    \/ Parse
    \/ Println
    \/ MainOk
    \/ MainErr

Spec == Init /\ [][Next]_vars

\* ---------------------------------------------------------------------
\* Command building as a pure function: every AwsArgs value, not only the
\* ones resolution produces, is handed to BuildCmd.
MfaValues ==
    {None} \cup { Some(<<serial, CharsToString(Trim(line))>>) :
                    serial \in MfaSerialValues, line \in StdinLines }

AwsArgsSet ==
    { [source_profile |-> sp, subcommand |-> sub] :
        sp \in {None} \cup {Some(v) : v \in SourceProfileValues},
        sub \in { AssumeRoleArgsNew(r, e, m) :
                    r \in RoleArnValues,
                    e \in {None} \cup {Some(v) : v \in ExternalIdValues},
                    m \in MfaValues }
                \cup { GetSessionTokenArgsNew(m) : m \in MfaValues } }

InitArgs ==
    /\ pc = "build_cmd"
    /\ app = [profile |-> None, source_profile |-> None, role_arn |-> Some("arn:x"),
              external_id |-> None]
    /\ homeDir = Some("/home/u")
    /\ config = None
    /\ properties = None
    /\ stdinLine = None
    /\ args \in {Some(a) : a \in AwsArgsSet}
    /\ cmd = None
    /\ spawned = 0
    /\ output = None
    /\ response = None
    /\ err = None
    /\ stdout = ""
    /\ stderrLines = <<>>
    /\ stderrPartial = ""
    /\ exitCode = None
    /\ events = <<>>

NextArgs == BuildCmd

SpecArgs == InitArgs /\ [][NextArgs]_vars

\* ------------------------------------------------------------- helpers
Count(seq, x) == Cardinality({i \in 1..Len(seq) : seq[i] = x})

Contains(seq, x) == \E i \in 1..Len(seq) : seq[i] = x

EndsWith(seq, tail) ==
    /\ Len(tail) <= Len(seq)
    /\ SubSeq(seq, Len(seq) - Len(tail) + 1, Len(seq)) = tail

\* the store was read and holds no section "profile <name>"
NoProfileSection ==
    /\ IsSome(app.profile)
    /\ IsSome(config)
    /\ Unwrap(config).ok
    /\ ("profile " \o Unwrap(app.profile)) \notin DOMAIN Unwrap(config).sections

\* c is line without its leading and trailing white space
IsTrimmed(line, c) ==
    \E i \in 1..(Len(line) + 1), j \in 0..Len(line) :
        /\ c = SubSeq(line, i, j)
        /\ \A k \in 1..(i - 1) : line[k] \in WhiteSpace
        /\ \A k \in (j + 1)..Len(line) : line[k] \in WhiteSpace
        /\ i <= j => (line[i] \notin WhiteSpace /\ line[j] \notin WhiteSpace)
        /\ i > j => j = i - 1

\* the document is a JSON object whose member Credentials is a JSON object
\* holding key k with a string value
HasStringField(bytes, k) ==
    /\ bytes.wellformed
    /\ bytes.doc.t = "obj"
    /\ "Credentials" \in DOMAIN bytes.doc.m
    /\ bytes.doc.m["Credentials"].t = "obj"
    /\ k \in DOMAIN bytes.doc.m["Credentials"].m
    /\ bytes.doc.m["Credentials"].m[k].t = "str"

HasAllFields(bytes) == \A k \in CredKeys : HasStringField(bytes, k)

Field(bytes, k) == bytes.doc.m["Credentials"].m[k].v

ExportLine(name, value) == (("export " \o name) \o "='") \o (value \o "'")

\* ---------------------------------------------------------------- C1
\* C1: when the profile named on the command line has no "profile <name>"
\* section in the (readable) config store, resolution fails with the
\* profile-not-found error, the aws process is never spawned, no command is
\* built, and nothing is written to standard output.
C1_ProfileNotFound ==
    NoProfileSection =>
        /\ err = Some(AppErrorGeneric(ProfileNotFoundText(Unwrap(app.profile), homeDir)))
        /\ pc \in {"main_err", "exited"}
        /\ args = None
        /\ cmd = None
        /\ spawned = 0
        /\ ~Contains(events, "spawn")
        /\ stdout = ""
        /\ pc = "exited" => exitCode = Some(1)

\* a store that holds the bare section "dev" but not "profile dev"
C1_Witness ==
    /\ NoProfileSection
    /\ "dev" \in DOMAIN Unwrap(config).sections
    /\ app.profile = Some("dev")
    /\ pc = "exited"

\* ---------------------------------------------------------------- C2
\* C2: once the child has terminated with a non-zero status, _main returns
\* AppError::CmdError, the captured output is never decoded, and no
\* credentials are written to standard output.
C2_NonZeroExit ==
    (IsSome(output) /\ Unwrap(output).status # 0) =>
        /\ ~Contains(events, "parse")
        /\ response = None
        /\ stdout = ""
        /\ pc \in {"check_status", "main_err", "exited"}
        /\ pc # "check_status" => err = Some(AppErrorCmd(Unwrap(cmd)))
        /\ pc = "exited" => exitCode = Some(1)

\* the child failed although its output was a well-formed response
C2_Witness ==
    /\ IsSome(output)
    /\ Unwrap(output).status # 0
    /\ HasAllFields(Unwrap(output).stdout)
    /\ pc = "exited"

\* ---------------------------------------------------------------- C3
\* C3: when the child exits with status zero and its output is malformed
\* JSON or lacks one of Credentials.AccessKeyId, Credentials.SecretAccessKey,
\* Credentials.SessionToken as a string, the invocation ends with the
\* unexpected-output error and nothing written to standard output.
C3_UnexpectedOutput ==
    (/\ pc = "exited"
     /\ IsSome(output)
     /\ Unwrap(output).status = 0
     /\ ~HasAllFields(Unwrap(output).stdout)) =>
        /\ IsSome(err)
        /\ Unwrap(err).kind = "UnexpectedOutput"
        /\ stdout = ""

\* ---------------------------------------------------------------- C4
\* C4: for a profile found in the store, resolution prompts exactly once
\* when the profile defines mfa_serial, and the request then carries
\* mfa = (that serial, the trimmed line read), for AssumeRole and for
\* GetSessionToken alike; when the profile defines no mfa_serial there is no
\* prompt, nothing is read and mfa is none.
C4_MfaPrompt ==
    (IsSome(properties) /\ pc # "try_from_properties") =>
        LET p == Unwrap(properties) IN
        IF IsSome(p.mfa_serial)
        THEN /\ Count(events, "prompt") = 1
             /\ IF IsSome(args)
                THEN /\ IsSome(stdinLine)
                     /\ IsSome(Unwrap(args).subcommand.mfa)
                     /\ Unwrap(Unwrap(args).subcommand.mfa)[1] = Unwrap(p.mfa_serial)
                     /\ \E c \in SeqsUpTo(BodyChars, Len(Unwrap(stdinLine))) :
                           /\ IsTrimmed(Unwrap(stdinLine), c)
                           /\ Unwrap(Unwrap(args).subcommand.mfa)[2] = CharsToString(c)
                ELSE err = Some(AppErrorIo(IoReadError))
        ELSE /\ Count(events, "prompt") = 0
             /\ stdinLine = None
             /\ stderrPartial = ""
             /\ IsSome(args)
             /\ Unwrap(args).subcommand.mfa = None

\* a session-token request built from a line with white space on both sides
C4_Witness ==
    /\ IsSome(properties)
    /\ IsSome(Unwrap(properties).mfa_serial)
    /\ IsSome(args)
    /\ Unwrap(args).subcommand.tag = "GetSessionToken"
    /\ stdinLine = Some(<<" ", "7", "\n">>)
    /\ Unwrap(args).subcommand.mfa = Some(<<"serial:1", "7">>)
    /\ Count(events, "prompt") = 1

\* ---------------------------------------------------------------- C5
\* C5: for a profile found in the store, resolution selects AssumeRole with
\* the profile's role_arn and no external id exactly when role_arn is
\* present and non-empty, and GetSessionToken otherwise; no AssumeRole
\* request built from a profile has an empty role_arn.
C5_OperationSelection ==
    (IsSome(properties) /\ IsSome(args)) =>
        LET p == Unwrap(properties)
            sub == Unwrap(args).subcommand
        IN  IF IsSome(p.role_arn) /\ Unwrap(p.role_arn) # ""
            THEN /\ sub.tag = "AssumeRole"
                 /\ sub.role_arn = Unwrap(p.role_arn)
                 /\ sub.external_id = None
            ELSE sub.tag = "GetSessionToken"

\* ---------------------------------------------------------------- C6
\* C6: the argument sequence built from an AwsArgs value is --profile and the
\* source profile when there is one, then sts, then for AssumeRole
\* assume-role, --role-arn, the arn, --role-session-name, the fixed name,
\* then --external_id and the id when there is one, then --serial-number,
\* the serial, --token-code, the code when there is an MFA pair; for
\* GetSessionToken get-session-token and the same MFA flags; nothing else.
C6_ReferenceArgs(r) ==
    LET sub == r.subcommand
        profile == IF r.source_profile = None THEN <<>>
                   ELSE <<"--profile", r.source_profile[1]>>
        external == IF sub.external_id = None THEN <<>>
                    ELSE <<"--external_id", sub.external_id[1]>>
        mfaFlags == IF sub.mfa = None THEN <<>>
                    ELSE <<"--serial-number", sub.mfa[1][1], "--token-code", sub.mfa[1][2]>>
    IN  IF sub.tag = "AssumeRole"
        THEN profile \o <<"sts", "assume-role", "--role-arn", sub.role_arn,
                          "--role-session-name", "blah">> \o external \o mfaFlags
        ELSE profile \o <<"sts", "get-session-token">> \o mfaFlags

C6_ArgumentSequence ==
    IsSome(cmd) => Unwrap(cmd) = <<"aws">> \o C6_ReferenceArgs(Unwrap(args))

\* a role request carrying source profile, external id and MFA pair at once
C6_Witness ==
    /\ IsSome(cmd)
    /\ Unwrap(args).subcommand.tag = "AssumeRole"
    /\ IsSome(Unwrap(args).source_profile)
    /\ IsSome(Unwrap(args).subcommand.external_id)
    /\ IsSome(Unwrap(args).subcommand.mfa)
    /\ Len(Unwrap(cmd)) = 15

\* ---------------------------------------------------------------- C7
\* C7: an invocation without a profile name never prompts, never reads the
\* config store or standard input, and resolves to AssumeRole with the given
\* arn, the given external id (or none) and no MFA pair; its arguments end
\* with sts assume-role --role-arn <arn> --role-session-name <name>, followed
\* by --external_id <id> when one was given, and hold no MFA flag.
C7_ExplicitParameters ==
    (app.profile = None) =>
        /\ ~Contains(events, "prompt")
        /\ config = None
        /\ properties = None
        /\ stdinLine = None
        /\ stderrPartial = ""
        /\ pc # "try_from_app" =>
              args = Some([source_profile |-> app.source_profile,
                           subcommand |-> [tag |-> "AssumeRole",
                                           role_arn |-> Unwrap(app.role_arn),
                                           external_id |-> app.external_id,
                                           mfa |-> None]])
        /\ IsSome(cmd) =>
              /\ EndsWith(Unwrap(cmd),
                    <<"sts", "assume-role", "--role-arn", Unwrap(app.role_arn),
                      "--role-session-name", "blah">>
                    \o (IF IsSome(app.external_id)
                        THEN <<"--external_id", Unwrap(app.external_id)>>
                        ELSE <<>>))
              /\ ~Contains(Unwrap(cmd), "--serial-number")
              /\ ~Contains(Unwrap(cmd), "--token-code")

\* --role-arn arn:x --external-id eid, after the command was built
C7_Witness ==
    /\ app.profile = None
    /\ app.role_arn = Some("arn:x")
    /\ app.external_id = Some("eid")
    /\ cmd = Some(<<"aws", "sts", "assume-role", "--role-arn", "arn:x",
                    "--role-session-name", "blah", "--external_id", "eid">>)

\* ---------------------------------------------------------------- C8
\* C8: when the response object holds the strings a, s, t under
\* Credentials.AccessKeyId, .SecretAccessKey, .SessionToken, the text printed
\* is the three lines export AWS_ACCESS_KEY_ID='a', export
\* AWS_SECRET_ACCESS_KEY='s', export AWS_SESSION_TOKEN='t', in that order,
\* separated by single newlines, the values unchanged; println ends the
\* last line.
C8_Rendering ==
    (Contains(events, "print") /\ HasAllFields(Unwrap(output).stdout)) =>
        LET bytes == Unwrap(output).stdout IN
        stdout = ExportLine("AWS_ACCESS_KEY_ID", Field(bytes, "AccessKeyId")) \o "\n"
                 \o ExportLine("AWS_SECRET_ACCESS_KEY", Field(bytes, "SecretAccessKey")) \o "\n"
                 \o ExportLine("AWS_SESSION_TOKEN", Field(bytes, "SessionToken")) \o "\n"

\* a response with an extra member, printed
C8_Witness ==
    /\ Contains(events, "print")
    /\ HasAllFields(Unwrap(output).stdout)
    /\ "Expiration" \in DOMAIN Unwrap(output).stdout.doc.m["Credentials"].m
    /\ stdout = "export AWS_ACCESS_KEY_ID='AKIA1'\nexport AWS_SECRET_ACCESS_KEY='S'K/+'\nexport AWS_SESSION_TOKEN='ST=='\n"

\* ---------------------------------------------------------------- C9
\* C9 as stated: every invocation ends either with exit code 0 and the
\* credentials printed, or with exit code 1 and exactly one line written to
\* the diagnostic stream.
C9_SingleLineDiagnostic ==
    pc = "exited" =>
        \/ /\ exitCode = Some(0)
           /\ err = None
           /\ Contains(events, "print")
        \/ /\ exitCode = Some(1)
           /\ IsSome(err)
           /\ Len(stderrLines) = 1

\* C9 amended: every invocation ends in one of three ways: exit code 0 with
\* the credentials printed and no completed line on the diagnostic stream;
\* exit code 1 with nothing printed and the line "Error: <message>" written
\* last to the diagnostic stream, after one more line (empty but for a
\* pending MFA prompt) exactly when the error is the tool's non-zero exit;
\* or, when a profile name is given and the home directory cannot be
\* determined, a panic with exit code 101 before the store is read.
C9_Outcomes ==
    pc = "exited" =>
        /\ stderrPartial = "" \/ (exitCode = Some(0) /\ stderrPartial = "MFA token: ")
        /\ \/ /\ exitCode = Some(0)
              /\ err = None
              /\ Contains(events, "print")
              /\ stdout # ""
              /\ stderrLines = <<>>
           \/ /\ exitCode = Some(1)
              /\ IsSome(err)
              /\ stdout = ""
              /\ Unwrap(err).kind \in {"Generic", "ProfileError", "Io", "CmdError", "UnexpectedOutput"}
              /\ LET prompt == IF Contains(events, "prompt") THEN "MFA token: " ELSE ""
                     message == "Error: " \o AppErrorFmt(Unwrap(err), homeDir)
                 IN  IF Unwrap(err).kind = "CmdError"
                     THEN stderrLines = <<prompt, message>>
                     ELSE stderrLines = <<prompt \o message>>
           \/ /\ exitCode = Some(101)
              /\ err = None
              /\ IsSome(app.profile)
              /\ homeDir = None
              /\ config = None
              /\ stdout = ""
              /\ spawned = 0

\* the tool exited non-zero: an empty line, then the message
C9_Witness ==
    /\ pc = "exited"
    /\ exitCode = Some(1)
    /\ Unwrap(err).kind = "CmdError"
    /\ Len(stderrLines) = 2
    /\ stderrLines[1] = ""

\* --------------------------------------------------------------- C10
Rank(e) ==
    CASE e = "resolve" -> 1
      [] e = "prompt" -> 2
      [] e = "build" -> 3
      [] e = "spawn" -> 4
      [] e = "wait" -> 5
      [] e = "parse" -> 6
      [] e = "print" -> 7

\* C10: the steps happen in the order resolve, MFA prompt, build, spawn,
\* wait, parse, print, each at most once; only the prompt may be skipped; the
\* tool is spawned at most once; parsing follows the tool's termination and
\* printing follows a successful parse.
C10_StepOrder ==
    /\ \A i \in 1..(Len(events) - 1) : Rank(events[i]) < Rank(events[i + 1])
    /\ \A i \in 1..Len(events) :
          Rank(events[i]) > 2 =>
             /\ i > 1
             /\ IF events[i] = "build"
                THEN events[i - 1] \in {"resolve", "prompt"}
                ELSE Rank(events[i - 1]) = Rank(events[i]) - 1
    /\ Len(events) > 0 => events[1] = "resolve"
    /\ spawned <= 1
    /\ spawned = Count(events, "spawn")
    /\ Contains(events, "parse") => IsSome(output)
    /\ Contains(events, "print") => (IsSome(response) /\ response = FromSlice(Unwrap(output).stdout))
    /\ IsSome(cmd) <=> Contains(events, "build")

C10_Witness ==
    events = <<"resolve", "prompt", "build", "spawn", "wait", "parse", "print">>

====
